---------------------------- MODULE Spec2Model ----------------------------
(***************************************************************************)
(* A model of the dbchat MCP conformance scripts:                          *)
(*   src/test-mcp-server.py    DatabaseMcpTester (one process per session) *)
(*   src/test-mcp-protocol.py  MCPTester (one process per request)         *)
(*                                                                         *)
(* Spec   : one session of send_mcp_requests_session against an arbitrary  *)
(*          child process (it may answer, answer a notification, write     *)
(*          text that is not JSON, stay silent, close its stdin or exit at *)
(*          any moment), followed by run_session_test's verdict.           *)
(* SpecV  : validate_response and validate_json_rpc applied, as the two    *)
(*          drivers call them, to bounded (request, response) inputs.      *)
(***************************************************************************)
EXTENDS Integers, Sequences, FiniteSets, TLC

(***************************************************************************)
(* Bounds of the model.                                                    *)
(***************************************************************************)
\* longest list of expected field paths of a test case
MaxPaths == 2
\* longest scenario (number of messages of one session)
MaxMsgs == 3
\* most lines the child process writes to stdout in one session
MaxLines == 2

(***************************************************************************)
(* JSON values as json.loads returns them.  Every value is a record with a *)
(* type tag; Python's None is JNull.                                       *)
(***************************************************************************)
JNull == [t |-> "null"]
JInt(n) == [t |-> "int", i |-> n]
JStr(s) == [t |-> "str", s |-> s]
JBool(b) == [t |-> "bool", b |-> b]
JList(l) == [t |-> "list", l |-> l]
\* a dict from a set of <<key, value>> pairs with distinct keys
JObj(S) == [t |-> "obj", o |-> [k \in {p[1] : p \in S} |-> (CHOOSE p \in S : p[1] = k)[2]]]

IsDict(v) == v.t = "obj"
\* Python: key in d (d a dict)
HasKey(d, k) == IsDict(d) /\ k \in DOMAIN d.o
\* Python: d.get(k) (None when the key is absent)
Get(d, k) == IF k \in DOMAIN d.o THEN d.o[k] ELSE JNull

\* Python: the number an int or a bool stands for (bool is a subclass of int)
PyNum(v) == IF v.t = "bool" THEN (IF v.b THEN 1 ELSE 0) ELSE v.i
\* Python: a == b on parsed JSON scalars.  Numbers compare by value whatever
\* their type (True == 1); every other pair compares by type and value.
PyEq(a, b) ==
    IF a.t \in {"int", "bool"} /\ b.t \in {"int", "bool"}
    THEN PyNum(a) = PyNum(b)
    ELSE a = b
\* Python: bool(v)
Truthy(v) ==
    CASE v.t = "null" -> FALSE
      [] v.t = "int"  -> v.i # 0
      [] v.t = "bool" -> v.b
      [] v.t = "str"  -> v.s # ""
      [] v.t = "list" -> v.l # << >>
      [] v.t = "obj"  -> DOMAIN v.o # {}


(***************************************************************************)
(* DatabaseMcpTester.validate_response (test-mcp-server.py).  The outcome  *)
(* is the returned pair (ok, msg), or raised when the body raises.         *)
(***************************************************************************)
VFail(m) == [raised |-> FALSE, ok |-> FALSE, msg |-> m]
VPass == [raised |-> FALSE, ok |-> TRUE, msg |-> ""]
VRaised == [raised |-> TRUE, ok |-> FALSE, msg |-> "raised"]

\* Python: a in b for two of the strings the model uses (substring test)
IsSubstring(a, b) == a = b \/ a = ""
\* Python: key in result, for a result on which the test is defined
KeyIn(key, result) ==
    CASE result.t = "obj"  -> key \in DOMAIN result.o
      [] result.t = "list" -> \E n \in 1..Len(result.l) : result.l[n] = JStr(key)
      [] result.t = "str"  -> IsSubstring(key, result.s)
      [] OTHER             -> FALSE
\* Python: key in result raises TypeError on None, int and bool
KeyInRaises(result) == result.t \in {"null", "int", "bool"}

\* if expected_id is not None: ... if actual_id != expected_id
id_mismatch(response, expected_id) ==
    expected_id # JNull /\ ~PyEq(Get(response, "id"), expected_id)

\* lines 201-208: the expected keys of a result
check_expected_keys(response, expected_keys) ==
    IF expected_keys = << >> \/ ~HasKey(response, "result") THEN VPass
    ELSE IF KeyInRaises(response.o["result"]) THEN VRaised
    ELSE IF \E n \in 1..Len(expected_keys) : ~KeyIn(expected_keys[n], response.o["result"])
         THEN LET first == CHOOSE n \in 1..Len(expected_keys) :
                             /\ ~KeyIn(expected_keys[n], response.o["result"])
                             /\ \A m \in 1..(n - 1) :
                                    KeyIn(expected_keys[m], response.o["result"])
              IN  VFail("Missing expected key in result: " \o expected_keys[first])
    ELSE VPass

\* a variant that accepts an error whether or not it is allowed
check_result_error_allowing_errors(response, expected_keys, allow_error) ==
    LET has_result == HasKey(response, "result")
        has_error == HasKey(response, "error")
    IN  IF ~has_result /\ ~has_error
        THEN VFail("Response missing both result and error fields")
        ELSE IF has_result /\ has_error
        THEN VFail("Response has both result and error fields")
        ELSE IF has_error THEN VPass
        ELSE check_expected_keys(response, expected_keys)

\* lines 180-199: result/error exclusivity and the error allowance
check_result_error(response, expected_keys, allow_error) ==
    LET has_result == HasKey(response, "result")
        has_error == HasKey(response, "error")
    IN  IF ~has_result /\ ~has_error
        THEN VFail("Response missing both result and error fields")
        ELSE IF has_result /\ has_error
        THEN VFail("Response has both result and error fields")
        ELSE IF has_error
        THEN (IF ~allow_error THEN VFail("Server error") ELSE VPass)
        ELSE check_expected_keys(response, expected_keys)

validate_response(response, expected_id, expected_keys, allow_error) ==
    IF ~Truthy(response) THEN VFail("No response received")
    ELSE IF ~IsDict(response) THEN VRaised
    ELSE IF ~PyEq(Get(response, "jsonrpc"), JStr("2.0"))
    THEN VFail("Invalid or missing jsonrpc field")
    ELSE IF id_mismatch(response, expected_id) THEN VFail("ID mismatch")
    ELSE check_result_error(response, expected_keys, allow_error)

(***************************************************************************)
(* MCPTester.validate_json_rpc (test-mcp-protocol.py): the list of errors, *)
(* or raised when response is not a dict (response.get).                   *)
(***************************************************************************)
\* lines 312-314
rpc_version_errors(response) ==
    IF ~PyEq(Get(response, "jsonrpc"), JStr("2.0"))
    THEN <<"Missing or invalid 'jsonrpc' field">> ELSE << >>

\* a variant that accepts an echoed id only when the expected id is truthy
rpc_id_errors_truthy_only(response, expected_id) ==
    IF HasKey(response, "id")
    THEN (IF ~Truthy(expected_id) \/ ~PyEq(expected_id, response.o["id"])
          THEN <<"ID mismatch">> ELSE << >>)
    ELSE (IF expected_id # JNull THEN <<"Missing 'id' field">> ELSE << >>)

\* lines 316-323
rpc_id_errors(response, expected_id) ==
    IF HasKey(response, "id")
    THEN (IF ~PyEq(expected_id, response.o["id"]) THEN <<"ID mismatch">> ELSE << >>)
    ELSE (IF expected_id # JNull THEN <<"Missing 'id' field">> ELSE << >>)

\* a variant that checks only for the absence of both fields
rpc_exclusive_errors_neither_only(response) ==
    IF ~HasKey(response, "result") /\ ~HasKey(response, "error")
    THEN <<"Response must have either 'result' or 'error'">>
    ELSE << >>

\* lines 325-332
rpc_exclusive_errors(response) ==
    LET has_result == HasKey(response, "result")
        has_error == HasKey(response, "error")
    IN  IF ~has_result /\ ~has_error
        THEN <<"Response must have either 'result' or 'error'">>
        ELSE IF has_result /\ has_error
        THEN <<"Response cannot have both 'result' and 'error'">>
        ELSE << >>

\* Python: isinstance(v, int) (a bool is an int)
IsInstanceInt(v) == v.t \in {"int", "bool"}

\* lines 334-348
rpc_error_shape_errors(response) ==
    IF ~HasKey(response, "error") THEN << >>
    ELSE LET error == response.o["error"]
         IN  IF ~IsDict(error) THEN <<"Error field must be an object">>
             ELSE (IF ~HasKey(error, "code")
                   THEN <<"Error object missing 'code' field">>
                   ELSE IF ~IsInstanceInt(error.o["code"])
                   THEN <<"Error code must be an integer">>
                   ELSE << >>)
               \o (IF ~HasKey(error, "message")
                   THEN <<"Error object missing 'message' field">>
                   ELSE IF error.o["message"].t # "str"
                   THEN <<"Error message must be a string">>
                   ELSE << >>)

validate_json_rpc(response, expected_id) ==
    IF ~IsDict(response) THEN [raised |-> TRUE, errors |-> << >>]
    ELSE [raised |-> FALSE,
          errors |-> rpc_version_errors(response)
                     \o rpc_id_errors(response, expected_id)
                     \o rpc_exclusive_errors(response)
                     \o rpc_error_shape_errors(response)]

(***************************************************************************)
(* MCPTester.validate_expected_fields (test-mcp-protocol.py).              *)
(***************************************************************************)
\* the position of the first "." of field_path, 0 when it has none
first_dot(field_path) ==
    IF \E n \in 1..Len(field_path) : SubSeq(field_path, n, n) = "."
    THEN CHOOSE n \in 1..Len(field_path) :
            /\ SubSeq(field_path, n, n) = "."
            /\ \A m \in 1..(n - 1) : SubSeq(field_path, m, m) # "."
    ELSE 0

RECURSIVE split(_)
\* line 358: field_path.split('.')
split(field_path) ==
    IF first_dot(field_path) = 0 THEN <<field_path>>
    ELSE <<SubSeq(field_path, 1, first_dot(field_path) - 1)>>
         \o split(SubSeq(field_path, first_dot(field_path) + 1, Len(field_path)))

RECURSIVE walk_parts(_, _)
\* lines 360-365: TRUE iff the loop over parts ends without the break
walk_parts(current, parts) ==
    IF parts = << >> THEN TRUE
    ELSE IF IsDict(current) /\ Head(parts) \in DOMAIN current.o
         THEN walk_parts(current.o[Head(parts)], Tail(parts))
         ELSE FALSE

RECURSIVE validate_expected_fields(_, _)
\* lines 354-367
validate_expected_fields(response, expected_fields) ==
    IF expected_fields = << >> THEN << >>
    ELSE (IF walk_parts(response, split(Head(expected_fields))) THEN << >>
          ELSE <<"Missing expected field: " \o Head(expected_fields)>>)
         \o validate_expected_fields(response, Tail(expected_fields))

(***************************************************************************)
(* MCPTester.validate_mcp_specific (test-mcp-protocol.py): the list of     *)
(* errors, or raised when a membership test or a subscript raises.         *)
(***************************************************************************)
McpRaised == [raised |-> TRUE, errors |-> << >>]
McpErrors(errors) == [raised |-> FALSE, errors |-> errors]

\* Python: name.startswith(prefix)
startswith(name, prefix) ==
    Len(name) >= Len(prefix) /\ SubSeq(name, 1, Len(prefix)) = prefix

\* lines 378-380 and 403-405: one error for each field that is not in container
missing_fields(fields, container, before, after) ==
    LET absent == SelectSeq(fields, LAMBDA field : ~KeyIn(field, container))
    IN  [n \in 1..Len(absent) |-> before \o absent[n] \o after]

\* lines 374-386
mcp_initialize(result) ==
    IF KeyInRaises(result) THEN McpRaised
    ELSE LET errors == missing_fields(<<"protocolVersion", "capabilities", "serverInfo">>,
                                      result, "Initialize response missing '", "'")
         IN  IF ~KeyIn("capabilities", result) THEN McpErrors(errors)
             ELSE IF ~IsDict(result) THEN McpRaised
             ELSE IF ~IsDict(result.o["capabilities"])
             THEN McpErrors(Append(errors, "capabilities must be an object"))
             ELSE McpErrors(errors)

RECURSIVE tool_errors(_, _)
\* lines 397-405: the errors of the tools from position n (0-based: n - 1) on
tool_errors(tools, n) ==
    IF n > Len(tools) THEN << >>
    ELSE (IF ~IsDict(tools[n])
          THEN <<"Tool " \o ToString(n - 1) \o " must be an object">>
          ELSE missing_fields(<<"name", "description">>, tools[n],
                              "Tool " \o ToString(n - 1) \o " missing '", "'"))
         \o tool_errors(tools, n + 1)

\* lines 389-405
mcp_list_tools(result) ==
    IF KeyInRaises(result) THEN McpRaised
    ELSE IF ~KeyIn("tools", result)
    THEN McpErrors(<<"tools/list response missing 'tools' array">>)
    ELSE IF ~IsDict(result) THEN McpRaised
    ELSE IF result.o["tools"].t # "list" THEN McpErrors(<<"'tools' must be an array">>)
    ELSE McpErrors(tool_errors(result.o["tools"].l, 1))

\* lines 408-413
mcp_call_query_tool(result) ==
    IF KeyInRaises(result) THEN McpRaised
    ELSE IF ~KeyIn("content", result)
    THEN McpErrors(<<"tools/call response missing 'content'">>)
    ELSE IF ~IsDict(result) THEN McpRaised
    ELSE IF result.o["content"].t # "list" THEN McpErrors(<<"'content' must be an array">>)
    ELSE McpErrors(<< >>)

McpPrefixes == {"Initialize Protocol", "List Tools", "Call Query Tool"}

validate_mcp_specific(name, response) ==
    IF ~\E prefix \in McpPrefixes : startswith(name, prefix) THEN McpErrors(<< >>)
    ELSE IF KeyInRaises(response) THEN McpRaised
    ELSE IF ~KeyIn("result", response) THEN McpErrors(<< >>)
    ELSE IF ~IsDict(response) THEN McpRaised
    ELSE IF startswith(name, "Initialize Protocol") THEN mcp_initialize(response.o["result"])
    ELSE IF startswith(name, "List Tools") THEN mcp_list_tools(response.o["result"])
    ELSE mcp_call_query_tool(response.o["result"])


(***************************************************************************)
(* The state.                                                              *)
(*   Session (send_mcp_requests_session, run_session_test):                *)
(*     requests, allow_errors  the arguments of run_session_test           *)
(*     pc, i, responses        position, loop index and list of the loop   *)
(*     process                 "none" | "running" | "exited" | "killed"    *)
(*     child_stdin             the child still holds its end of stdin open *)
(*     stdin_closed            process.stdin.close() has been called       *)
(*     stdin_pipe, stdout_pipe what is in flight in either direction       *)
(*     ret, path               the returned list and the exit path taken   *)
(*     test_results            what run_session_test appended              *)
(*     served                  the message the child took last from stdin  *)
(*     sent, reads, lines_read, emitted   history of the session           *)
(*   Validators: v_request, v_response, v_expected_keys, v_allow_error are *)
(*     the inputs, v_server and v_rpc the outcomes of validate_response    *)
(*     and validate_json_rpc, v_done the validators that have run;         *)
(*     v_name and v_expected_fields are the test case's name and field     *)
(*     paths, v_fields and v_mcp the outcomes of validate_expected_fields  *)
(*     and validate_mcp_specific.                                          *)
(*   Suites (run_all_tests and main of either script):                     *)
(*     test_cases, test_no     MCPTester's test cases and the one running  *)
(*     returncode              the exit status of run_mcp_server's child   *)
(*                             (-1 while it has none)                      *)
(*     returned                what run_mcp_server returned                *)
(*     results                 the counters of MCPTester.run_all_tests     *)
(*     scenario                the run_session_test call of                *)
(*                             DatabaseMcpTester.run_all_tests in progress *)
(*     exit_code               the exit status of the script (-1: running) *)
(***************************************************************************)
VARIABLES requests, allow_errors, pc, i, responses, process, child_stdin,
          stdin_closed, stdin_pipe, stdout_pipe, ret, path, test_results,
          sent, reads, lines_read, emitted, served,
          v_request, v_response, v_expected_keys, v_allow_error, v_server, v_rpc,
          v_done, v_name, v_expected_fields, v_fields, v_mcp,
          test_cases, test_no, returncode, returned, results, scenario, exit_code,
          cleanup_required, db_files, summary_printed

session_vars == <<requests, allow_errors, pc, i, responses, process, child_stdin,
                  stdin_closed, stdin_pipe, stdout_pipe, ret, path, test_results,
                  sent, reads, lines_read, emitted, served>>
validator_vars == <<v_request, v_response, v_expected_keys, v_allow_error, v_server,
                    v_rpc, v_done, v_name, v_expected_fields, v_fields, v_mcp>>
suite_vars == <<test_cases, test_no, returncode, returned, results, scenario, exit_code,
                cleanup_required, db_files, summary_printed>>
\* DatabaseMcpTester.cleanup_required, whether files test-db/mcptest* exist,
\* and whether print_summary has run
cleanup_vars == <<cleanup_required, db_files, summary_printed>>
vars == <<session_vars, validator_vars, suite_vars>>

(***************************************************************************)
(* Messages.  A message is the dict handed to json.dumps; a notification   *)
(* is a dict without the key "id".                                         *)
(***************************************************************************)
Request(method, ids) ==
    JObj({<<"jsonrpc", JStr("2.0")>>, <<"method", JStr(method)>>, <<"params", JObj({})>>}
         \cup {<<"id", v>> : v \in ids})
\* the identifiers a message of a session may carry
SessionIds == {JNull, JStr(""), JInt(1)}
SessionMessages ==
    {Request("notifications/initialized", {})} \cup {Request("tools/list", {v}) : v \in SessionIds}
Scenarios == UNION {[1..n -> SessionMessages] : n \in 1..MaxMsgs}

ErrorObject == JObj({<<"code", JInt(-32601)>>, <<"message", JStr("Method not found")>>})
Reply(ids, key, value) ==
    JObj({<<"jsonrpc", JStr("2.0")>>, <<key, value>>} \cup {<<"id", v>> : v \in ids})
\* the reply a conformant server gives: the message's id (null when it has
\* none) and a result
ReplyBodies(request) ==
    { Reply({Get(request, "id")}, "result", JObj({})) }
\* what the child may write on one line of stdout in answer to message j: a
\* reply, or text that is not JSON.  origin is the message the child was
\* answering (history, not part of the text)
LinesFor(j) ==
    {[kind |-> "json", origin |-> j, body |-> b] : b \in ReplyBodies(requests[j])}
    \cup {[kind |-> "garbage", origin |-> j, body |-> JNull]}

None == JNull
AllNone(n) == [k \in 1..n |-> None]


(***************************************************************************)
(* send_mcp_requests_session (test-mcp-server.py, lines 91-157).           *)
(***************************************************************************)
\* a variant deciding by the value: "if not request.get('id')"
expects_reply_if_truthy_id(request) == HasKey(request, "id") /\ Truthy(Get(request, "id"))

\* line 117: a reply is read for a message iff it has the key "id"
expects_reply(request) == HasKey(request, "id")

\* a variant that keeps the text of a line json.loads rejects as the response
parse_response_line_keeping_text(line) ==
    CASE line.kind = "json"    -> line.body
      [] line.kind = "garbage" -> JStr("garbage")
      [] line.kind = "eof"     -> None

\* lines 124-136: what is appended for the text readline returned: a line of
\* JSON, a line json.loads rejects ("garbage"), or the empty string readline
\* returns at end of file ("eof"), for which response_line.strip() is false
parse_response_line(line) ==
    CASE line.kind = "json"    -> line.body
      [] line.kind = "garbage" -> None
      [] line.kind = "eof"     -> None
EndOfFile == [kind |-> "eof", origin |-> 0, body |-> JNull]

\* a write to process.stdin reaches the child iff the child holds the pipe open
pipe_intact == process = "running" /\ child_stdin

\* a variant whose handler returns the responses collected so far
except_Exception_keeping_responses ==
    /\ ret' = responses
    /\ path' = "exception"
    /\ pc' = "done"

\* lines 155-157: the handler of any exception raised in the body
except_Exception ==
    /\ ret' = AllNone(Len(requests))
    /\ path' = "exception"
    /\ pc' = "done"

\* lines 99-108
Popen ==
    /\ pc = "start"
    /\ \/ /\ process' = "running"
          /\ child_stdin' = TRUE
          /\ pc' = "loop"
          /\ UNCHANGED <<ret, path>>
       \/ /\ except_Exception
          /\ UNCHANGED <<process, child_stdin>>
    /\ UNCHANGED <<requests, allow_errors, i, responses, stdin_closed, stdin_pipe,
                   stdout_pipe, test_results, sent, reads, lines_read, emitted, served>>
    /\ UNCHANGED validator_vars
    /\ UNCHANGED suite_vars

\* a variant reading a line after every message, notifications included
after_write_always_readline(request) == "readline"
\* a variant writing every message without waiting for its reply
after_write_never_readline(request) == "loop"

\* where the loop goes once request has been written (lines 116-121)
after_write(request) == IF expects_reply(request) THEN "readline" ELSE "loop"

\* lines 111-119: write and flush message i; a notification is done at once
WriteRequest ==
    /\ pc = "loop"
    /\ i <= Len(requests)
    /\ IF pipe_intact
       THEN /\ stdin_pipe' = Append(stdin_pipe, i)
            /\ sent' = Append(sent, i)
            /\ pc' = after_write(requests[i])
            /\ IF after_write(requests[i]) = "loop"
               THEN /\ responses' = Append(responses, None)
                    /\ i' = i + 1
               ELSE UNCHANGED <<responses, i>>
            /\ UNCHANGED <<ret, path>>
       ELSE /\ except_Exception
            /\ UNCHANGED <<stdin_pipe, sent, responses, i>>
    /\ UNCHANGED <<requests, allow_errors, process, child_stdin, stdin_closed,
                   stdout_pipe, test_results, reads, lines_read, emitted, served>>
    /\ UNCHANGED validator_vars
    /\ UNCHANGED suite_vars

\* lines 122-136: process.stdout.readline() returns the next line, or "" once
\* the child has gone and the pipe is drained; it has no timeout
Readline ==
    /\ pc = "readline"
    /\ stdout_pipe # << >> \/ process # "running"
    /\ LET line == IF stdout_pipe # << >> THEN Head(stdout_pipe) ELSE EndOfFile
       IN  /\ responses' = Append(responses, parse_response_line(line))
           /\ lines_read' = IF line.kind = "eof" THEN lines_read
                            ELSE Append(lines_read, [line |-> line, by |-> i])
           /\ stdout_pipe' = IF stdout_pipe # << >> THEN Tail(stdout_pipe) ELSE stdout_pipe
    /\ reads' = [reads EXCEPT ![i] = @ + 1]
    /\ i' = i + 1
    /\ pc' = "loop"
    /\ UNCHANGED <<requests, allow_errors, process, child_stdin, stdin_closed,
                   stdin_pipe, ret, path, test_results, sent, emitted, served>>
    /\ UNCHANGED validator_vars
    /\ UNCHANGED suite_vars

\* line 139
CloseStdin ==
    /\ pc = "loop"
    /\ i > Len(requests)
    /\ stdin_closed' = TRUE
    /\ pc' = "wait"
    /\ UNCHANGED <<requests, allow_errors, i, responses, process, child_stdin,
                   stdin_pipe, stdout_pipe, ret, path, test_results, sent, reads,
                   lines_read, emitted, served>>
    /\ UNCHANGED validator_vars
    /\ UNCHANGED suite_vars

\* lines 142-148: process.wait(timeout=5) returns, or times out and the child
\* is killed and reaped
Wait ==
    /\ pc = "wait"
    /\ process' = IF process = "running" THEN "killed" ELSE process
    /\ child_stdin' = FALSE
    /\ ret' = responses
    /\ path' = "normal"
    /\ pc' = "done"
    /\ UNCHANGED <<requests, allow_errors, i, responses, stdin_closed, stdin_pipe,
                   stdout_pipe, test_results, sent, reads, lines_read, emitted, served>>
    /\ UNCHANGED validator_vars
    /\ UNCHANGED suite_vars

(***************************************************************************)
(* The child process: any program reading stdin and writing stdout.  It is *)
(* followed until send_mcp_requests_session has returned.                  *)
(***************************************************************************)
in_session == pc \in {"loop", "readline", "wait"}

ServerTake ==
    /\ in_session
    /\ process = "running"
    /\ child_stdin
    /\ stdin_pipe # << >>
    /\ served' = Head(stdin_pipe)
    /\ stdin_pipe' = Tail(stdin_pipe)
    /\ UNCHANGED <<requests, allow_errors, pc, i, responses, process, child_stdin,
                   stdin_closed, stdout_pipe, ret, path, test_results, sent, reads,
                   lines_read, emitted>>
    /\ UNCHANGED validator_vars
    /\ UNCHANGED suite_vars

ServerWrite ==
    /\ in_session
    /\ process = "running"
    /\ served # 0
    /\ emitted < MaxLines
    /\ \E line \in LinesFor(served) : stdout_pipe' = Append(stdout_pipe, line)
    /\ emitted' = emitted + 1
    /\ UNCHANGED <<requests, allow_errors, pc, i, responses, process, child_stdin,
                   stdin_closed, stdin_pipe, ret, path, test_results, sent, reads,
                   lines_read, served>>
    /\ UNCHANGED validator_vars
    /\ UNCHANGED suite_vars

ServerCloseStdin ==
    /\ in_session
    /\ process = "running"
    /\ child_stdin
    /\ child_stdin' = FALSE
    /\ UNCHANGED <<requests, allow_errors, pc, i, responses, process, stdin_closed,
                   stdin_pipe, stdout_pipe, ret, path, test_results, sent, reads,
                   lines_read, emitted, served>>
    /\ UNCHANGED validator_vars
    /\ UNCHANGED suite_vars

ServerExit ==
    /\ in_session
    /\ process = "running"
    /\ process' = "exited"
    /\ child_stdin' = FALSE
    /\ UNCHANGED <<requests, allow_errors, pc, i, responses, stdin_closed, stdin_pipe,
                   stdout_pipe, ret, path, test_results, sent, reads, lines_read,
                   emitted, served>>
    /\ UNCHANGED validator_vars
    /\ UNCHANGED suite_vars


(***************************************************************************)
(* run_session_test (test-mcp-server.py, lines 241-292), called with the   *)
(* default expected_keys_list.                                             *)
(***************************************************************************)
\* line 274 (k is the 1-based position, i + 1 of the code)
allow_error_at(allow, k) ==
    IF allow # << >> /\ k <= Len(allow) THEN allow[k] ELSE FALSE

\* line 273 (k is the 1-based position, i + 1 of the code)
expected_keys_at(expected_keys_list, k) ==
    IF expected_keys_list # << >> /\ k <= Len(expected_keys_list)
    THEN expected_keys_list[k] ELSE << >>

\* lines 257-277: the outcome of one (request, response) pair of the zip
message_verdict(request, response, expected_keys, allow_error) ==
    IF ~HasKey(request, "id")
    THEN (IF response = None THEN VPass
          ELSE VFail("Unexpected response for notification"))
    ELSE validate_response(response, Get(request, "id"), expected_keys, allow_error)

verdict_at(allow, k) ==
    message_verdict(requests[k], ret[k], expected_keys_at(<< >>, k), allow_error_at(allow, k))

RECURSIVE error_messages(_, _)
\* lines 265 and 284: the messages of the first k pairs, in order
error_messages(allow, k) ==
    IF k = 0 THEN << >>
    ELSE error_messages(allow, k - 1)
         \o (IF verdict_at(allow, k).ok THEN << >>
             ELSE <<[request |-> k, msg |-> verdict_at(allow, k).msg]>>)

\* lines 248-292, for either value of the argument allow_errors; an exception
\* of validate_response escapes the method
run_session_test ==
    /\ pc = "done"
    /\ \E allow \in {<< >>, [k \in 1..Len(requests) |-> TRUE]} :
         LET n == IF Len(requests) < Len(ret) THEN Len(requests) ELSE Len(ret)
         IN  /\ allow_errors' = allow
             /\ IF \E k \in 1..n : verdict_at(allow, k).raised
                THEN /\ pc' = "raised"
                     /\ UNCHANGED test_results
                ELSE /\ pc' = "judged"
                     /\ test_results' =
                          Append(test_results,
                                 [success |-> \A k \in 1..n : verdict_at(allow, k).ok,
                                  error |-> error_messages(allow, n)])
    /\ UNCHANGED <<requests, i, responses, process, child_stdin,
                   stdin_closed, stdin_pipe, stdout_pipe, ret, path, sent, reads,
                   lines_read, emitted, served>>
    /\ UNCHANGED validator_vars
    /\ UNCHANGED suite_vars

(***************************************************************************)
(* One session and its verdict.                                            *)
(***************************************************************************)
ValidatorIdle ==
    /\ v_request = JNull
    /\ v_response = JNull
    /\ v_expected_keys = << >>
    /\ v_allow_error = FALSE
    /\ v_server = VFail("not called")
    /\ v_rpc = [raised |-> FALSE, errors |-> << >>]
    /\ v_done = {}
    /\ v_name = ""
    /\ v_expected_fields = << >>
    /\ v_fields = << >>
    /\ v_mcp = [raised |-> FALSE, errors |-> << >>]

\* no suite is running
SuiteIdle ==
    /\ test_cases = << >>
    /\ test_no = 0
    /\ returncode = -1
    /\ returned = [stdout |-> << >>, stderr |-> "", return_code |-> 0]
    /\ results = [passed |-> 0, failed |-> 0, errors |-> 0]
    /\ scenario = 0
    /\ exit_code = -1
    /\ cleanup_required = FALSE
    /\ db_files = FALSE
    /\ summary_printed = FALSE

Init ==
    /\ requests \in Scenarios
    /\ allow_errors = << >>
    /\ pc = "start"
    /\ i = 1
    /\ responses = << >>
    /\ process = "none"
    /\ child_stdin = FALSE
    /\ stdin_closed = FALSE
    /\ stdin_pipe = << >>
    /\ stdout_pipe = << >>
    /\ ret = << >>
    /\ path = "none"
    /\ test_results = << >>
    /\ sent = << >>
    /\ reads = [k \in 1..Len(requests) |-> 0]
    /\ lines_read = << >>
    /\ emitted = 0
    /\ served = 0
    /\ ValidatorIdle
    /\ SuiteIdle

\* the steps of the harness
Harness == Popen \/ WriteRequest \/ Readline \/ CloseStdin \/ Wait \/ run_session_test

Next ==
    \/ Popen
    \/ WriteRequest
    \/ Readline
    \/ CloseStdin
    \/ Wait
    \/ run_session_test
    \/ ServerTake
    \/ ServerWrite
    \/ ServerCloseStdin
    \/ ServerExit

Spec == Init /\ [][Next]_vars


(***************************************************************************)
(* The validators on bounded inputs, called as the two drivers call them.  *)
(***************************************************************************)
\* run_test line 229 and run_session_test line 276: request.get("id")
expected_id_server(request) == Get(request, "id")
\* run_test_case line 475
expected_id_protocol(request) ==
    IF HasKey(request, "id") THEN Get(request, "id") ELSE None

ValidatorRequests ==
    {Request("tools/list", {})}
    \cup {Request("tools/list", {v}) : v \in {JNull, JStr(""), JStr("1"), JInt(1)}}
VersionFields == {{}, {<<"jsonrpc", JStr("2.0")>>}, {<<"jsonrpc", JStr("1.0")>>}}
IdFields ==
    {{}} \cup {{<<"id", v>>} : v \in {JNull, JInt(1), JStr("1"), JStr(""), JBool(TRUE)}}
ResultFields ==
    {{}, {<<"result", JObj({})>>}, {<<"result", JObj({<<"tools", JList(<< >>)>>})>>},
     {<<"result", JNull>>}}
ErrorFields ==
    {{}, {<<"error", ErrorObject>>}, {<<"error", JStr("boom")>>},
     {<<"error", JObj({<<"code", JStr("x")>>})>>},
     {<<"error", JObj({<<"code", JBool(TRUE)>>, <<"message", JStr("m")>>})>>}}
ValidatorResponses ==
    {JObj(a \cup b \cup c \cup d) :
        a \in VersionFields, b \in IdFields, c \in ResultFields, d \in ErrorFields}
    \cup {None, JList(<<JInt(1)>>)}

SessionIdle ==
    /\ requests = << >>
    /\ allow_errors = << >>
    /\ pc = "idle"
    /\ i = 1
    /\ responses = << >>
    /\ process = "none"
    /\ child_stdin = FALSE
    /\ stdin_closed = FALSE
    /\ stdin_pipe = << >>
    /\ stdout_pipe = << >>
    /\ ret = << >>
    /\ path = "none"
    /\ test_results = << >>
    /\ sent = << >>
    /\ reads = << >>
    /\ lines_read = << >>
    /\ emitted = 0
    /\ served = 0

InitV ==
    /\ SessionIdle
    /\ v_request \in ValidatorRequests
    /\ v_response \in ValidatorResponses
    /\ v_expected_keys \in {<< >>, <<"tools">>, <<"tools", "nextCursor">>}
    /\ v_allow_error \in BOOLEAN
    /\ v_server = VFail("not called")
    /\ v_rpc = [raised |-> FALSE, errors |-> << >>]
    /\ v_done = {}
    /\ v_name = ""
    /\ v_expected_fields = << >>
    /\ v_fields = << >>
    /\ v_mcp = [raised |-> FALSE, errors |-> << >>]
    /\ SuiteIdle

\* run_test line 230, run_session_test line 277; a message without "id" never
\* reaches validate_response (lines 218 and 258)
call_validate_response ==
    /\ pc = "idle"
    /\ "server" \notin v_done
    /\ HasKey(v_request, "id")
    /\ v_server' = validate_response(v_response, expected_id_server(v_request),
                                     v_expected_keys, v_allow_error)
    /\ v_done' = v_done \cup {"server"}
    /\ UNCHANGED <<v_request, v_response, v_expected_keys, v_allow_error, v_rpc,
                   v_name, v_expected_fields, v_fields, v_mcp>>
    /\ UNCHANGED session_vars
    /\ UNCHANGED suite_vars

\* run_test_case line 478
call_validate_json_rpc ==
    /\ pc = "idle"
    /\ "rpc" \notin v_done
    /\ v_rpc' = validate_json_rpc(v_response, expected_id_protocol(v_request))
    /\ v_done' = v_done \cup {"rpc"}
    /\ UNCHANGED <<v_request, v_response, v_expected_keys, v_allow_error, v_server,
                   v_name, v_expected_fields, v_fields, v_mcp>>
    /\ UNCHANGED session_vars
    /\ UNCHANGED suite_vars

NextV ==
    \/ call_validate_response
    \/ call_validate_json_rpc

SpecV == InitV /\ [][NextV]_vars


(***************************************************************************)
(* The three validators of MCPTester.run_test_case on bounded inputs: a    *)
(* test case (name, request, expected_fields) and a parsed response.       *)
(***************************************************************************)
\* names of create_standard_test_cases: one for each branch of
\* validate_mcp_specific and one that matches no branch
FieldNames ==
    {"Initialize Protocol (Null ID)", "List Tools", "Call Query Tool", "List Resources"}
\* dotted paths as create_standard_test_cases writes them
FieldPaths == {"jsonrpc", "result", "result.tools", "error.code", "result.tools.name"}
FieldPathLists == UNION {[1..n -> FieldPaths] : n \in 0..MaxPaths}

Tool(fields) == JObj({<<f, JStr("x")>> : f \in fields})
FieldResults ==
    { JObj({}), JNull, JInt(1), JStr("tools"), JList(<<JStr("tools")>>),
      JObj({<<"tools", JInt(1)>>}),
      JObj({<<"tools", JList(<<JInt(1), Tool({"name"})>>)>>}),
      JObj({<<"tools", JList(<<Tool({"name", "description"})>>)>>}),
      JObj({<<"tools", JObj({<<"name", JStr("x")>>})>>}),
      JObj({<<"protocolVersion", JStr("x")>>, <<"capabilities", JInt(1)>>,
            <<"serverInfo", JObj({})>>}),
      JObj({<<"protocolVersion", JStr("x")>>, <<"capabilities", JObj({})>>,
            <<"serverInfo", JObj({})>>}),
      JObj({<<"content", JList(<< >>)>>}),
      JObj({<<"content", JStr("x")>>}) }
FieldResponses ==
    {Reply({JInt(1)}, "result", result) : result \in FieldResults}
    \cup {Reply({JInt(1)}, "error", ErrorObject), Reply({JInt(1)}, "error", JStr("boom")),
          JList(<<JStr("result")>>), JInt(5), None}

InitF ==
    /\ SessionIdle
    /\ SuiteIdle
    /\ v_request = Request("tools/list", {JInt(1)})
    /\ v_response \in FieldResponses
    /\ v_expected_keys = << >>
    /\ v_allow_error = FALSE
    /\ v_server = VFail("not called")
    /\ v_rpc = [raised |-> FALSE, errors |-> << >>]
    /\ v_done = {}
    /\ v_name \in FieldNames
    /\ v_expected_fields \in FieldPathLists
    /\ v_fields = << >>
    /\ v_mcp = McpErrors(<< >>)

\* run_test_case line 481
call_validate_expected_fields ==
    /\ pc = "idle"
    /\ "fields" \notin v_done
    /\ v_fields' = validate_expected_fields(v_response, v_expected_fields)
    /\ v_done' = v_done \cup {"fields"}
    /\ UNCHANGED <<v_request, v_response, v_expected_keys, v_allow_error, v_server,
                   v_rpc, v_name, v_expected_fields, v_mcp>>
    /\ UNCHANGED session_vars
    /\ UNCHANGED suite_vars

\* run_test_case line 484
call_validate_mcp_specific ==
    /\ pc = "idle"
    /\ "mcp" \notin v_done
    /\ v_mcp' = validate_mcp_specific(v_name, v_response)
    /\ v_done' = v_done \cup {"mcp"}
    /\ UNCHANGED <<v_request, v_response, v_expected_keys, v_allow_error, v_server,
                   v_rpc, v_name, v_expected_fields, v_fields>>
    /\ UNCHANGED session_vars
    /\ UNCHANGED suite_vars

NextF ==
    \/ call_validate_json_rpc
    \/ call_validate_expected_fields
    \/ call_validate_mcp_specific

SpecF == InitF /\ [][NextF]_vars

(***************************************************************************)
(* The four validators on replies to standard requests.                    *)
(***************************************************************************)
\* name, request and expected_fields of five test cases of
\* create_standard_test_cases (lines 62-79, 101-149 and 213-223)
ValidatedTestCases ==
    { [name |-> "Initialize Protocol", request |-> Request("initialize", {JInt(1)}),
       expected_fields |-> <<"jsonrpc", "id", "result">>],
      [name |-> "Initialize Protocol (Empty String ID)",
       request |-> Request("initialize", {JStr("")}),
       expected_fields |-> <<"jsonrpc", "id", "result">>],
      [name |-> "Initialize Protocol (Null ID)", request |-> Request("initialize", {JNull}),
       expected_fields |-> <<"jsonrpc", "id", "result">>],
      [name |-> "List Tools", request |-> Request("tools/list", {JInt(2)}),
       expected_fields |-> <<"jsonrpc", "id", "result", "result.tools">>],
      [name |-> "Invalid Method (Error Test)", request |-> Request("invalid/method", {JInt(5)}),
       expected_fields |-> <<"jsonrpc", "id", "error", "error.code", "error.message">>] }

\* the expected keys run_all_tests of test-mcp-server.py passes for a request
\* of the method (lines 383-389 and 521-525)
expected_keys_for(request) ==
    CASE Get(request, "method") = JStr("initialize") ->
           <<"protocolVersion", "capabilities", "serverInfo">>
      [] Get(request, "method") = JStr("tools/list") -> <<"tools">>
      [] OTHER -> << >>

\* replies a server may give to the request: with or without "jsonrpc", with
\* the request's id, another id or none, and with a result, an error, both or
\* neither
RepliesTo(request) ==
    {JObj(version \cup ids \cup body) :
        version \in {{}, {<<"jsonrpc", JStr("2.0")>>}},
        ids \in {{}, {<<"id", Get(request, "id")>>}, {<<"id", JInt(9)>>}},
        body \in {{},
                  {<<"result", JObj({<<"protocolVersion", JStr("x")>>,
                                     <<"capabilities", JObj({})>>,
                                     <<"serverInfo", JObj({})>>})>>},
                  {<<"result", JObj({<<"tools",
                                       JList(<<Tool({"name", "description"})>>)>>})>>},
                  {<<"result", JObj({<<"tools", JList(<<Tool({"name"})>>)>>})>>},
                  {<<"result", JObj({})>>},
                  {<<"error", ErrorObject>>},
                  {<<"error", JStr("boom")>>},
                  {<<"result", JObj({})>>, <<"error", ErrorObject>>}}}

InitW ==
    /\ SessionIdle
    /\ SuiteIdle
    /\ \E test_case \in ValidatedTestCases :
         /\ v_name = test_case.name
         /\ v_request = test_case.request
         /\ v_expected_fields = test_case.expected_fields
         /\ v_expected_keys = expected_keys_for(test_case.request)
         /\ v_response \in RepliesTo(test_case.request)
    /\ v_allow_error \in BOOLEAN
    /\ v_server = VFail("not called")
    /\ v_rpc = [raised |-> FALSE, errors |-> << >>]
    /\ v_done = {}
    /\ v_fields = << >>
    /\ v_mcp = McpErrors(<< >>)

NextW ==
    \/ call_validate_response
    \/ call_validate_json_rpc
    \/ call_validate_expected_fields
    \/ call_validate_mcp_specific

SpecW == InitW /\ [][NextW]_vars


(***************************************************************************)
(* The suite of test-mcp-server.py: main, run, run_all_tests and its three *)
(* calls of run_session_test.  What a session returns is any list that     *)
(* send_mcp_requests_session can return for the scenario: None for every   *)
(* message, or None for a notification and, for a message with an id, the  *)
(* parse of whatever line the child wrote.                                 *)
(***************************************************************************)
\* most responses of one scenario that are not the conformant reply
MaxFaults == 1

\* lines 342-381, 398-473 and 492-519 (id and method of each message)
lifecycle_requests ==
    <<Request("initialize", {JInt(1)}), Request("notifications/initialized", {}),
      Request("tools/list", {JInt(3)}), Request("resources/list", {JInt(4)}),
      Request("resources/read", {JInt(5)})>>
db_requests ==
    <<Request("initialize", {JInt(10)}), Request("notifications/initialized", {}),
      Request("tools/call", {JInt(12)}), Request("tools/call", {JInt(13)}),
      Request("tools/call", {JInt(14)}), Request("tools/call", {JInt(15)}),
      Request("resources/read", {JInt(16)})>>
error_requests ==
    <<Request("initialize", {JInt(20)}), Request("notifications/initialized", {}),
      Request("resources/read", {JInt(22)})>>

\* lines 383-389, 475-483 and 521-525
lifecycle_expected_keys ==
    <<<<"protocolVersion", "capabilities", "serverInfo">>, << >>, <<"tools">>,
      <<"resources">>, <<"contents">>>>
db_expected_keys ==
    <<<<"protocolVersion", "capabilities", "serverInfo">>, << >>, <<"content">>,
      <<"content">>, <<"content">>, <<"content">>, <<"contents">>>>
error_expected_keys == <<<<"protocolVersion", "capabilities", "serverInfo">>, << >>, << >>>>
\* line 527
error_allow_list == <<FALSE, FALSE, TRUE>>

\* lines 391-395, 485-489 and 529-534: the arguments of the three calls
SessionTests ==
    <<[requests |-> lifecycle_requests, expected_keys_list |-> lifecycle_expected_keys,
       allow_errors |-> << >>],
      [requests |-> db_requests, expected_keys_list |-> db_expected_keys,
       allow_errors |-> << >>],
      [requests |-> error_requests, expected_keys_list |-> error_expected_keys,
       allow_errors |-> error_allow_list]>>

\* the reply of a conformant server: the id and a result with the keys
Conformant(request, expected_keys) ==
    Reply({Get(request, "id")}, "result",
          JObj({<<key, JObj({})>> : key \in {expected_keys[n] : n \in 1..Len(expected_keys)}}))
\* other entries of the returned list: no line or an unparseable one, an error
\* reply, a line of JSON that is not an object, a result whose expected keys
\* are all present with the number 1 as their value
FaultKinds == {"none", "error", "list", "numbers"}
Fault(request, expected_keys, kind) ==
    CASE kind = "none"    -> None
      [] kind = "error"   -> Reply({Get(request, "id")}, "error", ErrorObject)
      [] kind = "list"    -> JList(<<JInt(1)>>)
      [] kind = "numbers" ->
           Reply({Get(request, "id")}, "result",
                 JObj({<<key, JInt(1)>> :
                         key \in {expected_keys[n] : n \in 1..Len(expected_keys)}}))

\* the lists send_mcp_requests_session may return for a call
SessionReturns(test) ==
    LET n == Len(test.requests)
        with_id == {k \in 1..n : HasKey(test.requests[k], "id")}
        faulty == {F \in SUBSET with_id : Cardinality(F) <= MaxFaults}
    IN  {AllNone(n)} \cup
        UNION {{[k \in 1..n |->
                   IF k \in F
                   THEN Fault(test.requests[k],
                              expected_keys_at(test.expected_keys_list, k), f[k])
                   ELSE IF k \in with_id
                   THEN Conformant(test.requests[k],
                                   expected_keys_at(test.expected_keys_list, k))
                   ELSE None] : f \in [F -> FaultKinds]} : F \in faulty}

\* lines 257-277 for message k of a call
session_verdict(test, returned_list, k) ==
    message_verdict(test.requests[k], returned_list[k],
                    expected_keys_at(test.expected_keys_list, k),
                    allow_error_at(test.allow_errors, k))

RECURSIVE session_error_messages(_, _, _)
\* lines 265 and 284: the messages of the first k pairs, in order
session_error_messages(test, returned_list, k) ==
    IF k = 0 THEN << >>
    ELSE session_error_messages(test, returned_list, k - 1)
         \o (IF session_verdict(test, returned_list, k).ok THEN << >>
             ELSE <<[request |-> k, msg |-> session_verdict(test, returned_list, k).msg]>>)

InitS ==
    /\ requests = << >>
    /\ allow_errors = << >>
    /\ pc = "main"
    /\ i = 1
    /\ responses = << >>
    /\ process = "none"
    /\ child_stdin = FALSE
    /\ stdin_closed = FALSE
    /\ stdin_pipe = << >>
    /\ stdout_pipe = << >>
    /\ ret = << >>
    /\ path = "none"
    /\ test_results = << >>
    /\ sent = << >>
    /\ reads = << >>
    /\ lines_read = << >>
    /\ emitted = 0
    /\ served = 0
    /\ ValidatorIdle
    /\ SuiteIdle

\* lines 573-578 (and 20-23): without the jar or java the script exits with 1;
\* else run_all_tests starts by removing the files test-db/mcptest* of an
\* earlier run (lines 326-339)
check_prerequisites ==
    /\ pc = "main"
    /\ \/ /\ pc' = "exited"
          /\ exit_code' = 1
          /\ UNCHANGED <<scenario, db_files>>
       \/ /\ pc' = "run_all_tests"
          /\ scenario' = 1
          /\ db_files' = FALSE
          /\ UNCHANGED exit_code
    /\ UNCHANGED <<cleanup_required, summary_printed>>
    /\ UNCHANGED <<requests, allow_errors, i, responses, process, child_stdin,
                   stdin_closed, stdin_pipe, stdout_pipe, ret, path, test_results,
                   sent, reads, lines_read, emitted, served>>
    /\ UNCHANGED <<test_cases, test_no, returncode, returned, results>>
    /\ UNCHANGED validator_vars

\* one call of run_session_test by run_all_tests (lines 391, 485, 529): the
\* session, the verdicts of lines 257-283 and the append of line 290; an
\* exception of validate_response leaves run_session_test and run_all_tests
\* and is caught by run (line 583).  A server that started may have created
\* the files of its database (DB_URL of line 27).  After the last call
\* run_all_tests sets cleanup_required (line 536)
call_run_session_test ==
    /\ pc = "run_all_tests"
    /\ scenario <= Len(SessionTests)
    /\ LET test == SessionTests[scenario]
           n == Len(test.requests)
       IN  \E returned_list \in SessionReturns(test) :
             /\ requests' = test.requests
             /\ allow_errors' = test.allow_errors
             /\ ret' = returned_list
             /\ IF \E k \in 1..n : session_verdict(test, returned_list, k).raised
                THEN /\ pc' = "except"
                     /\ UNCHANGED <<test_results, scenario>>
                ELSE /\ test_results' =
                          Append(test_results,
                                 [success |-> \A k \in 1..n :
                                                 session_verdict(test, returned_list, k).ok,
                                  error |-> session_error_messages(test, returned_list, n)])
                     /\ scenario' = scenario + 1
                     /\ pc' = IF scenario = Len(SessionTests) THEN "finally"
                              ELSE "run_all_tests"
             /\ cleanup_required' = (cleanup_required \/ pc' = "finally")
    /\ db_files' \in {db_files, TRUE}
    /\ UNCHANGED <<i, responses, process, child_stdin, stdin_closed, stdin_pipe,
                   stdout_pipe, path, sent, reads, lines_read, emitted, served>>
    /\ UNCHANGED <<test_cases, test_no, returncode, returned, results, exit_code,
                   summary_printed>>
    /\ UNCHANGED validator_vars

\* lines 582-583: the user interrupts run_all_tests, between two sessions or
\* during one whose server may have created its files; KeyboardInterrupt is
\* not an Exception, so the handlers of lines 152-157 let it through to run
KeyboardInterrupt ==
    /\ pc = "run_all_tests"
    /\ scenario <= Len(SessionTests)
    /\ pc' = "except"
    /\ db_files' \in {db_files, TRUE}
    /\ UNCHANGED <<requests, allow_errors, i, responses, process, child_stdin,
                   stdin_closed, stdin_pipe, stdout_pipe, ret, path, test_results,
                   sent, reads, lines_read, emitted, served>>
    /\ UNCHANGED <<test_cases, test_no, returncode, returned, results, scenario,
                   exit_code, cleanup_required, summary_printed>>
    /\ UNCHANGED validator_vars

\* lines 294-317: whether files test-db/mcptest* exist after cleanup_test_data,
\* each os.remove succeeding
cleanup_test_data(files) == FALSE

\* lines 582-591: the handlers of run print the interruption or the
\* exception; the finally clause calls cleanup_test_data if cleanup_required
\* is set and prints the summary
run_finally ==
    /\ pc \in {"except", "finally"}
    /\ pc' = "summary"
    /\ db_files' = IF cleanup_required THEN cleanup_test_data(db_files) ELSE db_files
    /\ summary_printed' = TRUE
    /\ UNCHANGED <<requests, allow_errors, i, responses, process, child_stdin,
                   stdin_closed, stdin_pipe, stdout_pipe, ret, path, test_results,
                   sent, reads, lines_read, emitted, served>>
    /\ UNCHANGED <<test_cases, test_no, returncode, returned, results, scenario,
                   exit_code, cleanup_required>>
    /\ UNCHANGED validator_vars

\* lines 594-606: run and main return; the interpreter exits with status 0
main_returns ==
    /\ pc = "summary"
    /\ pc' = "exited"
    /\ exit_code' = 0
    /\ UNCHANGED <<requests, allow_errors, i, responses, process, child_stdin,
                   stdin_closed, stdin_pipe, stdout_pipe, ret, path, test_results,
                   sent, reads, lines_read, emitted, served>>
    /\ UNCHANGED <<test_cases, test_no, returncode, returned, results, scenario>>
    /\ UNCHANGED cleanup_vars
    /\ UNCHANGED validator_vars

NextS ==
    \/ check_prerequisites
    \/ call_run_session_test
    \/ run_finally
    \/ main_returns

SpecS == InitS /\ [][NextS]_vars

\* the same suite with a user who may interrupt it
NextR ==
    \/ check_prerequisites
    \/ call_run_session_test
    \/ KeyboardInterrupt
    \/ run_finally
    \/ main_returns

SpecR == InitS /\ [][NextR]_vars


(***************************************************************************)
(* The suite of test-mcp-protocol.py: main, run_all_tests, run_test_case   *)
(* and run_mcp_server, which starts one child process for each test case.  *)
(* The child is any program: it writes lines to stdout and exits with some *)
(* status, or is still running when communicate times out.  pc, process    *)
(* and stdout_pipe (what the child has written) are those of the state.    *)
(***************************************************************************)
\* longest suite (number of test cases)
MaxTests == 2
\* most lines a child writes to stdout
MaxOut == 2

\* lines 46-58 and the defaults of lines 22-31
TestCase(name, request, expected_fields, is_notification, should_have_response) ==
    [name |-> name, request |-> request, expected_fields |-> expected_fields,
     is_notification |-> is_notification, should_have_response |-> should_have_response,
     result |-> "ERROR", response |-> None, error_message |-> ""]

\* two of the test cases of create_standard_test_cases (lines 139-162): a
\* request and a notification
StandardTestCases ==
    { TestCase("List Tools", Request("tools/list", {JInt(2)}),
               <<"jsonrpc", "id", "result", "result.tools">>, FALSE, TRUE),
      TestCase("List Tools (Notification - No Response Expected)",
               Request("tools/list", {}), << >>, TRUE, FALSE) }
Suites == UNION {[1..n -> StandardTestCases] : n \in 1..MaxTests}

\* what a child may write on one line of stdout: the reply to tools/list of a
\* conformant server, that reply without its tools, JSON that is not an
\* object, text that is not JSON, an empty line
OutputLines ==
    { [kind |-> "json", body |-> Reply({JInt(2)}, "result", JObj({<<"tools", JList(<< >>)>>}))],
      [kind |-> "json", body |-> Reply({JInt(2)}, "result", JObj({}))],
      [kind |-> "json", body |-> JList(<<JStr("id")>>)],
      [kind |-> "garbage", body |-> JNull],
      [kind |-> "blank", body |-> JNull] }

BlankLine == [kind |-> "blank", body |-> JNull]

\* a variant that takes the first line as written, blank or not
first_line_as_written(stdout) ==
    IF stdout = << >> THEN BlankLine ELSE Head(stdout)

RECURSIVE first_line(_)
\* line 437 and lines[0]: stdout.strip().split('\n')[0] is the first line that
\* is not blank, or '' when there is none
first_line(stdout) ==
    IF stdout = << >> THEN BlankLine
    ELSE IF Head(stdout).kind # "blank" THEN Head(stdout)
    ELSE first_line(Tail(stdout))

RECURSIVE join(_, _)
\* Python: sep.join(errors)
join(sep, errors) ==
    IF errors = << >> THEN ""
    ELSE IF Len(errors) = 1 THEN errors[1]
    ELSE errors[1] \o sep \o join(sep, Tail(errors))

\* lines 471-491: a response that json.loads accepted
validated_outcome(test_case, response) ==
    LET json_rpc == validate_json_rpc(response, expected_id_protocol(test_case.request))
        expected == validate_expected_fields(response, test_case.expected_fields)
        mcp == validate_mcp_specific(test_case.name, response)
        errors == json_rpc.errors \o expected \o mcp.errors
    IN  IF json_rpc.raised \/ mcp.raised
        THEN [result |-> "ERROR", response |-> response, error_message |-> "Unexpected error"]
        ELSE IF errors # << >>
        THEN [result |-> "FAIL", response |-> response, error_message |-> join("; ", errors)]
        ELSE [result |-> "PASS", response |-> response, error_message |-> ""]

\* a variant that looks at the output of a notification before the exit code
run_test_case_outcome_output_first(test_case, run) ==
    LET line == first_line(run.stdout)
    IN  IF test_case.is_notification /\ ~test_case.should_have_response
        THEN (IF line.kind = "blank"
              THEN [result |-> "PASS", response |-> None, error_message |-> ""]
              ELSE [result |-> "FAIL",
                    response |-> IF line.kind = "json" THEN line.body ELSE None,
                    error_message |-> "Unexpected response for notification"])
        ELSE IF run.return_code # 0
        THEN [result |-> "ERROR", response |-> None,
              error_message |-> "Server failed to start: " \o run.stderr]
        ELSE IF line.kind = "blank"
        THEN [result |-> "ERROR", response |-> None, error_message |-> "No response from server"]
        ELSE IF line.kind = "garbage"
        THEN [result |-> "ERROR", response |-> None, error_message |-> "Invalid JSON response"]
        ELSE validated_outcome(test_case, line.body)

\* a variant that expects a response exactly when the request has an "id"
run_test_case_outcome_by_id(test_case, run) ==
    LET line == first_line(run.stdout)
    IN  IF run.return_code # 0
        THEN [result |-> "ERROR", response |-> None,
              error_message |-> "Server failed to start: " \o run.stderr]
        ELSE IF ~HasKey(test_case.request, "id")
        THEN (IF line.kind = "blank"
              THEN [result |-> "PASS", response |-> None, error_message |-> ""]
              ELSE [result |-> "FAIL",
                    response |-> IF line.kind = "json" THEN line.body ELSE None,
                    error_message |-> "Unexpected response for notification"])
        ELSE IF line.kind = "blank"
        THEN [result |-> "ERROR", response |-> None, error_message |-> "No response from server"]
        ELSE IF line.kind = "garbage"
        THEN [result |-> "ERROR", response |-> None, error_message |-> "Invalid JSON response"]
        ELSE validated_outcome(test_case, line.body)

\* lines 430-498: result, response and error_message of the test case for
\* what run_mcp_server returned
run_test_case_outcome(test_case, run) ==
    LET line == first_line(run.stdout)
    IN  IF run.return_code # 0
        THEN [result |-> "ERROR", response |-> None,
              error_message |-> "Server failed to start: " \o run.stderr]
        ELSE IF test_case.is_notification /\ ~test_case.should_have_response
        THEN (IF line.kind = "blank"
              THEN [result |-> "PASS", response |-> None, error_message |-> ""]
              ELSE [result |-> "FAIL",
                    response |-> IF line.kind = "json" THEN line.body ELSE None,
                    error_message |-> "Unexpected response for notification"])
        ELSE IF line.kind = "blank"
        THEN [result |-> "ERROR", response |-> None, error_message |-> "No response from server"]
        ELSE IF line.kind = "garbage"
        THEN [result |-> "ERROR", response |-> None, error_message |-> "Invalid JSON response"]
        ELSE validated_outcome(test_case, line.body)

ProtocolIdleSession ==
    /\ requests = << >>
    /\ allow_errors = << >>
    /\ i = 1
    /\ responses = << >>
    /\ process = "none"
    /\ child_stdin = FALSE
    /\ stdin_closed = FALSE
    /\ stdin_pipe = << >>
    /\ stdout_pipe = << >>
    /\ ret = << >>
    /\ path = "none"
    /\ test_results = << >>
    /\ sent = << >>
    /\ reads = << >>
    /\ lines_read = << >>
    /\ emitted = 0
    /\ served = 0

InitP ==
    /\ ProtocolIdleSession
    /\ pc = "main"
    /\ ValidatorIdle
    /\ test_cases \in Suites
    /\ test_no = 0
    /\ returncode = -1
    /\ returned = [stdout |-> << >>, stderr |-> "", return_code |-> 0]
    /\ results = [passed |-> 0, failed |-> 0, errors |-> 0]
    /\ scenario = 0
    /\ exit_code = -1
    /\ cleanup_required = FALSE
    /\ db_files = FALSE
    /\ summary_printed = FALSE

\* the session variables that the protocol suite leaves alone
protocol_unused == <<requests, allow_errors, i, responses, child_stdin, stdin_closed,
                     stdin_pipe, ret, path, test_results, sent, reads, lines_read,
                     emitted, served, scenario, cleanup_required, db_files,
                     summary_printed>>

\* lines 621-639: main exits with 1 without a jar, or starts run_all_tests
main ==
    /\ pc = "main"
    /\ \/ /\ pc' = "exited"
          /\ exit_code' = 1
          /\ UNCHANGED test_no
       \/ /\ pc' = "run_test_case"
          /\ test_no' = 1
          /\ UNCHANGED exit_code
    /\ UNCHANGED <<process, stdout_pipe, test_cases, returncode, returned, results>>
    /\ UNCHANGED protocol_unused
    /\ UNCHANGED validator_vars

\* a variant that returns what the child had written, as after a normal exit
timeout_return_keeping_output(stdout) ==
    [stdout |-> stdout, stderr |-> "", return_code |-> 0]

\* lines 302-304: what run_mcp_server returns after subprocess.TimeoutExpired
timeout_return(stdout) ==
    [stdout |-> << >>, stderr |-> "Process timed out after 30 seconds", return_code |-> 1]

\* lines 305-306
exception_return ==
    [stdout |-> << >>, stderr |-> "Failed to run process", return_code |-> 1]

\* lines 288-297 (called from line 426): Popen starts the child or raises
run_mcp_server_Popen ==
    /\ pc = "run_test_case"
    /\ stdout_pipe' = << >>
    /\ returncode' = -1
    /\ \/ /\ process' = "running"
          /\ pc' = "communicate"
          /\ UNCHANGED returned
       \/ /\ process' = "none"
          /\ returned' = exception_return
          /\ pc' = "returned"
    /\ UNCHANGED <<test_cases, test_no, results, exit_code>>
    /\ UNCHANGED protocol_unused
    /\ UNCHANGED validator_vars

\* the child writes a line
ChildWrite ==
    /\ pc = "communicate"
    /\ process = "running"
    /\ Len(stdout_pipe) < MaxOut
    /\ \E line \in OutputLines : stdout_pipe' = Append(stdout_pipe, line)
    /\ UNCHANGED <<pc, process, test_cases, test_no, returncode, returned, results, exit_code>>
    /\ UNCHANGED protocol_unused
    /\ UNCHANGED validator_vars

\* the child exits, with status 0 or not
ChildExit ==
    /\ pc = "communicate"
    /\ process = "running"
    /\ process' = "exited"
    /\ returncode' \in {0, 1}
    /\ UNCHANGED <<pc, stdout_pipe, test_cases, test_no, returned, results, exit_code>>
    /\ UNCHANGED protocol_unused
    /\ UNCHANGED validator_vars

\* lines 299-300: communicate returns once the child has exited
communicate_returns ==
    /\ pc = "communicate"
    /\ process = "exited"
    /\ returned' = [stdout |-> stdout_pipe, stderr |-> "", return_code |-> returncode]
    /\ pc' = "returned"
    /\ UNCHANGED <<process, stdout_pipe, test_cases, test_no, returncode, results, exit_code>>
    /\ UNCHANGED protocol_unused
    /\ UNCHANGED validator_vars

\* lines 299 and 302-304: the child is still running after 30 seconds
communicate_TimeoutExpired ==
    /\ pc = "communicate"
    /\ process = "running"
    /\ process' = "killed"
    /\ returned' = timeout_return(stdout_pipe)
    /\ pc' = "returned"
    /\ UNCHANGED <<stdout_pipe, test_cases, test_no, returncode, results, exit_code>>
    /\ UNCHANGED protocol_unused
    /\ UNCHANGED validator_vars

\* lines 428-498: the verdict on what run_mcp_server returned
run_test_case ==
    /\ pc = "returned"
    /\ LET outcome == run_test_case_outcome(test_cases[test_no], returned)
       IN  test_cases' = [test_cases EXCEPT ![test_no] =
                            [@ EXCEPT !.result = outcome.result,
                                      !.response = outcome.response,
                                      !.error_message = outcome.error_message]]
    /\ pc' = "judged"
    /\ UNCHANGED <<process, stdout_pipe, test_no, returncode, returned, results, exit_code>>
    /\ UNCHANGED protocol_unused
    /\ UNCHANGED validator_vars

\* lines 550-553: '"id" in result.response' and 'result.response.get("id")'
\* raise for a response that is not a dict and is a number or contains "id"
print_id_raises(response) ==
    /\ Truthy(response)
    /\ ~IsDict(response)
    /\ KeyInRaises(response) \/ KeyIn("id", response)

\* a variant that counts every test case that did not pass as failed
count_failed_unless_passed(tally, result) ==
    CASE result = "PASS" -> [tally EXCEPT !.passed = @ + 1]
      [] OTHER           -> [tally EXCEPT !.failed = @ + 1]

\* lines 526-537
count(tally, result) ==
    CASE result = "PASS" -> [tally EXCEPT !.passed = @ + 1]
      [] result = "FAIL" -> [tally EXCEPT !.failed = @ + 1]
      [] OTHER           -> [tally EXCEPT !.errors = @ + 1]

\* lines 524-557: the rest of the loop body of run_all_tests; an exception of
\* its prints is caught nowhere and ends the script with status 1.  The locals
\* of run_test_case and run_mcp_server (process, stdout, stderr, return_code)
\* are gone
run_all_tests_record ==
    /\ pc = "judged"
    /\ results' = count(results, test_cases[test_no].result)
    /\ process' = "none"
    /\ stdout_pipe' = << >>
    /\ returncode' = -1
    /\ returned' = [stdout |-> << >>, stderr |-> "", return_code |-> 0]
    /\ IF print_id_raises(test_cases[test_no].response)
       THEN /\ pc' = "exited"
            /\ exit_code' = 1
            /\ UNCHANGED test_no
       ELSE /\ pc' = IF test_no = Len(test_cases) THEN "summary" ELSE "run_test_case"
            /\ test_no' = IF test_no = Len(test_cases) THEN test_no ELSE test_no + 1
            /\ UNCHANGED exit_code
    /\ UNCHANGED test_cases
    /\ UNCHANGED protocol_unused
    /\ UNCHANGED validator_vars

\* lines 641-652
main_exit ==
    /\ pc = "summary"
    /\ pc' = "exited"
    /\ exit_code' = IF results.failed > 0 \/ results.errors > 0 THEN 1 ELSE 0
    /\ UNCHANGED <<process, stdout_pipe, test_cases, test_no, returncode, returned, results>>
    /\ UNCHANGED protocol_unused
    /\ UNCHANGED validator_vars

NextP ==
    \/ main
    \/ run_mcp_server_Popen
    \/ ChildWrite
    \/ ChildExit
    \/ communicate_returns
    \/ communicate_TimeoutExpired
    \/ run_test_case
    \/ run_all_tests_record
    \/ main_exit

SpecP == InitP /\ [][NextP]_vars

(***************************************************************************)
(* test-mcp-protocol.py: run_all_tests on a test case of the caller.       *)
(***************************************************************************)
\* the arguments of a call of add_test_case: a request with an id of 2, null
\* or "" or without id, and the two flags
CustomRequests ==
    {Request("tools/list", ids) : ids \in {{JInt(2)}, {JNull}, {JStr("")}, {}}}

InitC ==
    /\ ProtocolIdleSession
    /\ pc = "add_test_case"
    /\ ValidatorIdle
    /\ test_cases = << >>
    /\ test_no = 0
    /\ returncode = -1
    /\ returned = [stdout |-> << >>, stderr |-> "", return_code |-> 0]
    /\ results = [passed |-> 0, failed |-> 0, errors |-> 0]
    /\ scenario = 0
    /\ exit_code = -1
    /\ cleanup_required = FALSE
    /\ db_files = FALSE
    /\ summary_printed = FALSE

\* lines 46-58, and lines 502-503 and 520-524: run_all_tests keeps a list of
\* test cases that is not empty and starts with its first test case
add_test_case ==
    /\ pc = "add_test_case"
    /\ \E request \in CustomRequests, is_notification, should_have_response \in BOOLEAN :
         test_cases' = <<TestCase("List Tools", request, <<"jsonrpc", "result">>,
                                  is_notification, should_have_response)>>
    /\ test_no' = 1
    /\ pc' = "run_test_case"
    /\ UNCHANGED <<process, stdout_pipe, returncode, returned, results, exit_code>>
    /\ UNCHANGED protocol_unused
    /\ UNCHANGED validator_vars

NextC ==
    \/ add_test_case
    \/ run_mcp_server_Popen
    \/ ChildWrite
    \/ ChildExit
    \/ communicate_returns
    \/ communicate_TimeoutExpired
    \/ run_test_case
    \/ run_all_tests_record

SpecC == InitC /\ [][NextC]_vars


(***************************************************************************)
(* Properties of a session.                                                *)
(***************************************************************************)
Range(seq) == {seq[n] : n \in 1..Len(seq)}
HasId(k) == HasKey(requests[k], "id")
\* send_mcp_requests_session has returned
Returned == pc \in {"done", "judged", "raised"}
\* the id-carrying messages written so far
IdCarryingSent == {k \in Range(sent) : HasId(k)}
\* the n-th id-carrying message of the scenario, in send order
NthIdCarrying(n) ==
    CHOOSE k \in 1..Len(requests) :
        HasId(k) /\ Cardinality({j \in 1..k : HasId(j)}) = n

\* C1 as stated: once a session with a started child has returned, every
\* message with an "id" has had exactly one readline call and every message
\* without "id" none.
C1_ExactlyOneReadPerIdMessage ==
    (Returned /\ process # "none") =>
        \A k \in 1..Len(requests) : reads[k] = IF HasId(k) THEN 1 ELSE 0

\* C1 amended: at every point of a session, a message has had exactly one
\* readline call if it carries an "id" (whatever the value), was written to the
\* child and the loop has moved past it; every other message (no "id", not yet
\* read for, or never written because Popen or a write raised) has had none.
C1_OneReadPerWrittenIdMessage ==
    \A k \in 1..Len(requests) :
        reads[k] = IF HasId(k) /\ k \in Range(sent) /\ k < i THEN 1 ELSE 0

\* a completed session of three messages: a notification, an id of null and an
\* id of "", read for 0, 1 and 1 times
C1_Witness ==
    /\ pc = "done"
    /\ path = "normal"
    /\ \E a, b, c \in 1..Len(requests) :
         /\ ~HasId(a) /\ reads[a] = 0
         /\ HasId(b) /\ Get(requests[b], "id") = JNull /\ reads[b] = 1
         /\ HasId(c) /\ Get(requests[c], "id") = JStr("") /\ reads[c] = 1

\* C2 as stated: a line the child wrote in answer to a notification is never
\* recorded as the response of a later message.
C2_NotificationReplyNeverPaired ==
    \A n \in 1..Len(lines_read) :
        LET l == lines_read[n]
        IN  ~ /\ ~HasId(l.line.origin)
              /\ l.line.kind = "json"
              /\ l.by > l.line.origin
              /\ l.by <= Len(responses)
              /\ responses[l.by] = l.line.body

\* C3 as stated: when a session has completed and the child has written more
\* lines than the scenario has id-carrying messages, the scenario's recorded
\* result carries an error.
C3_SurplusLineReported ==
    (/\ pc = "judged"
     /\ path = "normal"
     /\ emitted > Cardinality({k \in 1..Len(requests) : HasId(k)}))
        => ~test_results[1].success

\* C4: the lines read never outnumber the id-carrying messages already sent,
\* and the n-th line read was read for, and is recorded as the response of,
\* the n-th id-carrying message in send order.
C4_InOrderPairing ==
    /\ Len(lines_read) <= Cardinality(IdCarryingSent)
    /\ \A n \in 1..Len(lines_read) :
         LET l == lines_read[n]
         IN  /\ l.by = NthIdCarrying(n)
             /\ l.by <= Len(responses)
             /\ responses[l.by] = IF l.line.kind = "json" THEN l.line.body ELSE None

\* two lines have been read in a scenario that starts with a notification
C4_Witness ==
    /\ Len(lines_read) = 2
    /\ ~HasId(1)
    /\ lines_read[1].by = 2
    /\ lines_read[2].by = 3
    /\ lines_read[2].line.kind = "json"

\* C7 as stated: when send_mcp_requests_session returns, the child it started
\* has terminated and its stdin has been closed.
C7_ChildReleasedOnReturn ==
    (pc = "done" /\ process # "none") =>
        (process \in {"exited", "killed"} /\ stdin_closed)

\* C8 as stated: the session never waits without bound: as long as it has not
\* returned, the harness can take a step of its own (a timeout if nothing else),
\* whatever the child does or fails to do.
C8_SessionNeverBlocks ==
    pc \in {"start", "loop", "readline", "wait"} => ENABLED Harness

\* C9: a message is written only when every id-carrying message written
\* before it has had its read completed.
C9_NoTwoInFlight ==
    [][Len(sent') > Len(sent) => \A k \in IdCarryingSent : reads[k] = 1]_vars

\* the second id-carrying message is in flight, the first has been read for
C9_Witness ==
    /\ pc = "readline"
    /\ i = 2
    /\ HasId(1)
    /\ reads[1] = 1
    /\ reads[2] = 0
    /\ sent = <<1, 2>>

\* the lines read so far that json.loads rejected, by position in lines_read
MalformedReads == {n \in 1..Len(lines_read) : lines_read[n].line.kind = "garbage"}
\* the id-carrying messages after message k
LaterIdCarrying(k) == {j \in (k + 1)..Len(requests) : HasId(j)}

\* what holds in every state for the n-th line read, which is not JSON and
\* was read for message k
MalformedLineSkipped(n) ==
    LET k == lines_read[n].by
    IN  /\ k <= Len(responses)
        /\ responses[k] = None
        /\ n < Len(lines_read) =>
             /\ lines_read[n + 1].by \in LaterIdCarrying(k)
             /\ \A j \in LaterIdCarrying(k) : lines_read[n + 1].by <= j
             /\ responses[lines_read[n + 1].by]
                  = parse_response_line(lines_read[n + 1].line)
        /\ path = "normal" =>
             \A j \in (k + 1)..Len(requests) :
                j \in Range(sent) /\ reads[j] = IF HasId(j) THEN 1 ELSE 0
        /\ (pc = "judged" /\ path = "normal") =>
             /\ ~test_results[1].success
             /\ [request |-> k, msg |-> "No response received"]
                  \in Range(test_results[1].error)

\* the step that reads a line that is not JSON
ReadsMalformedLine ==
    /\ pc = "readline"
    /\ pc' # "readline"
    /\ stdout_pipe # << >>
    /\ Head(stdout_pipe).kind = "garbage"

\* C18: reading a line that is not JSON raises nothing: it takes that one line
\* off the pipe, records None for the message and returns to the loop at the
\* next message; the None is reported as an error of that message, the next
\* line read is paired with the next id-carrying message, and in a session
\* that completes every later message is sent and read for as usual.
C18_MalformedLineAdvancesByOne ==
    /\ [](\A n \in MalformedReads : MalformedLineSkipped(n))
    /\ [][ReadsMalformedLine =>
            /\ pc' = "loop"
            /\ i' = i + 1
            /\ responses' = Append(responses, None)
            /\ stdout_pipe' = Tail(stdout_pipe)
            /\ UNCHANGED <<path, ret, process, child_stdin, sent>>]_vars

\* a line that is not JSON was read for one message and a reply for a later
\* one; the session completed and the scenario was recorded as failed
C18_Witness ==
    /\ pc = "judged"
    /\ path = "normal"
    /\ Len(lines_read) = 2
    /\ lines_read[1].line.kind = "garbage"
    /\ lines_read[2].line.kind = "json"
    /\ ret[lines_read[2].by] = lines_read[2].line.body
    /\ ~test_results[1].success

\* C19 as stated: when a write to the child raises at message i, the messages
\* before i keep the responses already paired with them, and message i and
\* every later message are reported as errors.
C19_EarlierResponsesKept ==
    /\ (pc \in {"done", "judged"} /\ path = "exception" /\ process # "none") =>
         \A k \in 1..Len(responses) : ret[k] = responses[k]
    /\ (pc = "judged" /\ path = "exception" /\ process # "none") =>
         \A k \in i..Len(requests) :
            \E n \in 1..Len(test_results[1].error) : test_results[1].error[n].request = k


(***************************************************************************)
(* Properties of the validators.                                           *)
(***************************************************************************)
\* validate_response / validate_json_rpc has been applied to the inputs
ServerValidated == "server" \in v_done
RpcValidated == "rpc" \in v_done
\* the response has an "id" equal to the request's, type and value
EchoesId(request, response) ==
    HasKey(response, "id") /\ response.o["id"] = Get(request, "id")
\* the response has exactly one of "result" and "error"
ExactlyOneOfResultError(response) ==
    HasKey(response, "result") # HasKey(response, "error")

\* C5 as stated: for a request with an identifier, both validators report a
\* violation unless the response has an "id" strictly equal to the request's.
C5_IdEchoedOrViolation ==
    (HasKey(v_request, "id") /\ ~EchoesId(v_request, v_response)) =>
        /\ ServerValidated => ~v_server.ok
        /\ RpcValidated => (v_rpc.raised \/ v_rpc.errors # << >>)

\* C6 as stated: for a request whose id is null or "", a response without "id"
\* or with another id is never accepted by validate_response and always gets
\* an error from validate_json_rpc.
C6_NullAndEmptyIdAreChecked ==
    (/\ HasKey(v_request, "id")
     /\ Get(v_request, "id") \in {JNull, JStr("")}
     /\ IsDict(v_response)
     /\ ~EchoesId(v_request, v_response)) =>
        /\ ServerValidated => ~v_server.ok
        /\ RpcValidated => v_rpc.errors # << >>

RpcExclusiveMessages ==
    {"Response must have either 'result' or 'error'",
     "Response cannot have both 'result' and 'error'"}

\* C10: validate_json_rpc lists an exclusivity error iff the response does not
\* have exactly one of "result" and "error" (one error, naming the case), and
\* validate_response never accepts such a response and returns an exclusivity
\* message only for such a response, naming the case.
C10_ExactlyOneOfResultError ==
    /\ (RpcValidated /\ ~v_rpc.raised) =>
         /\ (Range(v_rpc.errors) \cap RpcExclusiveMessages # {})
              <=> ~ExactlyOneOfResultError(v_response)
         /\ "Response must have either 'result' or 'error'" \in Range(v_rpc.errors)
              <=> (~HasKey(v_response, "result") /\ ~HasKey(v_response, "error"))
         /\ "Response cannot have both 'result' and 'error'" \in Range(v_rpc.errors)
              <=> (HasKey(v_response, "result") /\ HasKey(v_response, "error"))
    /\ (ServerValidated /\ ~v_server.raised) =>
         /\ ~ExactlyOneOfResultError(v_response) => ~v_server.ok
         /\ v_server.msg = "Response missing both result and error fields"
              => (~HasKey(v_response, "result") /\ ~HasKey(v_response, "error"))
         /\ v_server.msg = "Response has both result and error fields"
              => (HasKey(v_response, "result") /\ HasKey(v_response, "error"))
         /\ (/\ ~ExactlyOneOfResultError(v_response)
             /\ Truthy(v_response)
             /\ Get(v_response, "jsonrpc") = JStr("2.0")
             /\ EchoesId(v_request, v_response))
              => v_server.msg \in {"Response missing both result and error fields",
                                   "Response has both result and error fields"}

\* both validators have rejected a response carrying both fields, each with
\* its exclusivity message
C10_Witness ==
    /\ ServerValidated
    /\ RpcValidated
    /\ HasKey(v_response, "result")
    /\ HasKey(v_response, "error")
    /\ v_server.msg = "Response has both result and error fields"
    /\ "Response cannot have both 'result' and 'error'" \in Range(v_rpc.errors)

\* an error member of the shape JSON-RPC requires: an object with an integer
\* "code" and a string "message"
WellShapedError(response) ==
    /\ IsDict(response.o["error"])
    /\ HasKey(response.o["error"], "code")
    /\ response.o["error"].o["code"].t = "int"
    /\ HasKey(response.o["error"], "message")
    /\ response.o["error"].o["message"].t = "str"

\* C11 as stated: a response whose "error" is not an object with an integer
\* "code" and a string "message" is never accepted by validate_response,
\* allow_error or not, and always gets an error from validate_json_rpc.
C11_ErrorShapeChecked ==
    (/\ IsDict(v_response)
     /\ HasKey(v_response, "error")
     /\ ~WellShapedError(v_response)) =>
        /\ ServerValidated => ~v_server.ok
        /\ RpcValidated => v_rpc.errors # << >>

\* the response is in order but for carrying "error" in place of "result"
ErrorOnlyResponse(request, response) ==
    /\ IsDict(response)
    /\ Get(response, "jsonrpc") = JStr("2.0")
    /\ EchoesId(request, response)
    /\ HasKey(response, "error")
    /\ ~HasKey(response, "result")

\* C12: validate_response never accepts a response carrying "error" when
\* allow_error is false, and rejects a response that is otherwise in order with
\* "Server error"; when allow_error is true it accepts that same response.
C12_ErrorNeedsAllowance ==
    (ServerValidated /\ IsDict(v_response) /\ HasKey(v_response, "error")) =>
        /\ ~v_allow_error => ~v_server.ok
        /\ (~v_allow_error /\ ErrorOnlyResponse(v_request, v_response))
             => v_server.msg = "Server error"
        /\ (v_allow_error /\ ErrorOnlyResponse(v_request, v_response))
             => v_server.ok

\* an error response, in order otherwise, has been rejected for want of the
\* allowance
C12_Witness ==
    /\ ServerValidated
    /\ ~v_allow_error
    /\ ErrorOnlyResponse(v_request, v_response)
    /\ WellShapedError(v_response)
    /\ v_server = VFail("Server error")

\* validate_expected_fields / validate_mcp_specific has been applied
FieldsValidated == "fields" \in v_done
McpValidated == "mcp" \in v_done

\* the segments of each path of FieldPaths
FieldPathParts ==
    [field_path \in FieldPaths |->
        CASE field_path = "jsonrpc"           -> <<"jsonrpc">>
          [] field_path = "result"            -> <<"result">>
          [] field_path = "result.tools"      -> <<"result", "tools">>
          [] field_path = "error.code"        -> <<"error", "code">>
          [] field_path = "result.tools.name" -> <<"result", "tools", "name">>]

RECURSIVE ValueAt(_, _, _)
\* the value reached from value by the first n segments of parts, which resolve
ValueAt(value, parts, n) ==
    IF n = 0 THEN value ELSE ValueAt(value, parts, n - 1).o[parts[n]]

RECURSIVE ResolvesUpTo(_, _, _)
\* the first n segments of parts name nested mappings from value on
ResolvesUpTo(value, parts, n) ==
    IF n = 0 THEN TRUE
    ELSE /\ ResolvesUpTo(value, parts, n - 1)
         /\ HasKey(ValueAt(value, parts, n - 1), parts[n])

Resolves(value, field_path) ==
    ResolvesUpTo(value, FieldPathParts[field_path], Len(FieldPathParts[field_path]))

\* validate_response got as far as the expected keys of an object result
ReachesExpectedKeys(request, response) ==
    /\ IsDict(response)
    /\ Get(response, "jsonrpc") = JStr("2.0")
    /\ EchoesId(request, response)
    /\ HasKey(response, "result")
    /\ ~HasKey(response, "error")
    /\ IsDict(response.o["result"])

\* C13 as stated: every required field that does not resolve is reported, and
\* only those: validate_expected_fields returns one error for each unresolved
\* path of the list, in order, and validate_response names every expected key
\* that the result lacks.
C13_EveryMissingFieldReported ==
    /\ FieldsValidated =>
         LET unresolved == SelectSeq(v_expected_fields,
                                     LAMBDA field_path : ~Resolves(v_response, field_path))
         IN  v_fields = [n \in 1..Len(unresolved) |->
                            "Missing expected field: " \o unresolved[n]]
    /\ (ServerValidated /\ ReachesExpectedKeys(v_request, v_response)) =>
         \A n \in 1..Len(v_expected_keys) :
            ~HasKey(v_response.o["result"], v_expected_keys[n])
                => v_server = VFail("Missing expected key in result: " \o v_expected_keys[n])

\* C14 as stated: whatever the parsed response, no validator raises: each
\* returns its list of violations (its verdict, for validate_response).
C14_ValidatorsNeverRaise ==
    /\ RpcValidated => ~v_rpc.raised
    /\ McpValidated => ~v_mcp.raised
    /\ ServerValidated => ~v_server.raised


(***************************************************************************)
(* Properties of the suites.                                               *)
(***************************************************************************)
\* C15 as stated, for test-mcp-server.py: once the script has run its suite
\* and exited, every scenario has a recorded outcome.
C15_EveryScenarioRecorded ==
    (pc = "exited" /\ scenario > 0) => Len(test_results) = Len(SessionTests)

\* C16 as stated, for test-mcp-server.py: the exit status is zero iff every
\* scenario was run and recorded as passed.
C16_ExitCodeTellsFailure ==
    pc = "exited" =>
        (exit_code = 0 <=>
            /\ Len(test_results) = Len(SessionTests)
            /\ \A n \in 1..Len(test_results) : test_results[n].success)

\* run_mcp_server reported a failure, or the first line of stdout is missing
\* or is not JSON
TransportFailure(run) ==
    run.return_code # 0 \/ first_line(run.stdout).kind \in {"blank", "garbage"}

\* C17 as stated: when the server exited with status 0 and the first line of
\* its output is JSON, the verdict of run_test_case on a request is PASS or
\* FAIL, never ERROR.
C17_ErrorOnlyForTransport ==
    (/\ pc = "judged"
     /\ ~test_cases[test_no].is_notification
     /\ ~TransportFailure(returned))
        => test_cases[test_no].result \in {"PASS", "FAIL"}

\* C20: once run_mcp_server has returned its child is no longer running; when
\* the child was killed for the timeout, run_mcp_server returned no output, the
\* timeout text and status 1, whatever the child had written, and the verdict
\* of run_test_case is ERROR with that text.
C20_TimeoutKillsAndErrors ==
    /\ pc \in {"returned", "judged"} => process # "running"
    /\ (pc \in {"returned", "judged"} /\ process = "killed") =>
         returned = [stdout |-> << >>, stderr |-> "Process timed out after 30 seconds",
                     return_code |-> 1]
    /\ (pc = "judged" /\ process = "killed") =>
         /\ test_cases[test_no].result = "ERROR"
         /\ test_cases[test_no].error_message
              = "Server failed to start: Process timed out after 30 seconds"

\* a child that had written a conformant reply was killed for the timeout and
\* its test case ended as ERROR
C20_Witness ==
    /\ pc = "judged"
    /\ process = "killed"
    /\ stdout_pipe # << >>
    /\ stdout_pipe[1].kind = "json"
    /\ validated_outcome(test_cases[test_no], stdout_pipe[1].body).result = "PASS"
    /\ test_cases[test_no].result = "ERROR"


(***************************************************************************)
(* Properties of the sessions, continued.                                  *)
(***************************************************************************)
\* an id-carrying message whose recorded response carries another id: the
\* only sign of a lost pairing that run_session_test can see (lines 175-178)
IdMismatchAt(k) ==
    /\ HasId(k)
    /\ IsDict(ret[k])
    /\ HasKey(ret[k], "id")
    /\ ~PyEq(Get(ret[k], "id"), Get(requests[k], "id"))

\* the messages of the scenario that the recorded result reports
ReportedMessages == {test_results[1].error[n].request : n \in 1..Len(test_results[1].error)}

\* C21 as stated: once a response with a foreign id has been recorded for a
\* message, every later message of the scenario is reported in the scenario's
\* result instead of being passed.
C21_LaterMessagesNotPassed ==
    pc = "judged" =>
        \A k \in 1..Len(requests) :
            IdMismatchAt(k) =>
                \A j \in (k + 1)..Len(requests) : j \in ReportedMessages

(***************************************************************************)
(* Properties of the suites, continued.                                    *)
(***************************************************************************)
\* the result of an initialize reply has protocolVersion, serverInfo and a
\* capabilities value that is an object
InitializeResultOk(response) ==
    LET result == Get(response, "result")
    IN  /\ IsDict(result)
        /\ HasKey(result, "protocolVersion")
        /\ HasKey(result, "serverInfo")
        /\ HasKey(result, "capabilities")
        /\ IsDict(Get(result, "capabilities"))

\* the messages reported by the result of the scenario just recorded
LastReportedMessages ==
    LET last == test_results[Len(test_results)]
    IN  {last.error[n].request : n \in 1..Len(last.error)}

\* C22 as stated, for the session driver: when a scenario has been recorded,
\* every initialize request of it whose reply carries a result without
\* protocolVersion, serverInfo or an object-valued capabilities is reported
\* in the scenario's result.
C22_InitializeShapeReported ==
    (pc \in {"run_all_tests", "finally"} /\ scenario > 1) =>
        \A k \in 1..Len(requests) :
            (/\ Get(requests[k], "method") = JStr("initialize")
             /\ IsDict(ret[k])
             /\ HasKey(ret[k], "result")
             /\ ~InitializeResultOk(ret[k]))
                => k \in LastReportedMessages

\* C27: when send_mcp_requests_session has returned, normally or through its
\* exception handler, the list it returned has one entry for each message of
\* the scenario; entry k is None or the parsed line that was read for message
\* k, and it is None for a message without "id".
C27_OneEntryPerMessage ==
    Returned =>
        /\ Len(ret) = Len(requests)
        /\ \A k \in 1..Len(ret) :
             \/ ret[k] = None
             \/ /\ HasId(k)
                /\ \E n \in 1..Len(lines_read) :
                     /\ lines_read[n].by = k
                     /\ lines_read[n].line.kind = "json"
                     /\ ret[k] = lines_read[n].line.body

\* a write raised after a response had been read: the list returned has an
\* entry for every message although fewer responses had been collected
C27_Witness ==
    /\ pc = "done"
    /\ path = "exception"
    /\ lines_read # << >>
    /\ Len(responses) < Len(requests)
    /\ Len(ret) = Len(requests)

\* C28: the entry returned for a message without "id" is None, whatever the
\* child wrote, so the result that run_session_test records never reports a
\* message without "id", and never an unexpected response for a notification.
C28_NotificationsAlwaysPass ==
    /\ Returned => \A k \in 1..Len(ret) : ~HasId(k) => ret[k] = None
    /\ pc = "judged" =>
         \A n \in 1..Len(test_results[1].error) :
             /\ HasId(test_results[1].error[n].request)
             /\ test_results[1].error[n].msg # "Unexpected response for notification"

\* the child answered a notification with a line, which was read for a later
\* message, and the scenario's result does not report the notification
C28_Witness ==
    /\ pc = "judged"
    /\ \E k \in 1..Len(requests) :
         /\ ~HasId(k)
         /\ \E n \in 1..Len(lines_read) : lines_read[n].line.origin = k
         /\ k \notin ReportedMessages

(***************************************************************************)
(* Properties of the validators, continued.                                *)
(***************************************************************************)
\* the segments of the dotted paths the standard test cases expect
ExpectedFieldParts ==
    [field_path \in {"jsonrpc", "id", "result", "result.tools", "error", "error.code",
                     "error.message"} |->
        CASE field_path = "result.tools"  -> <<"result", "tools">>
          [] field_path = "error.code"    -> <<"error", "code">>
          [] field_path = "error.message" -> <<"error", "message">>
          [] OTHER                        -> <<field_path>>]

\* every expected field of the list names nested mappings of the response
FieldsPresent(response, expected_fields) ==
    \A n \in 1..Len(expected_fields) :
        ResolvesUpTo(response, ExpectedFieldParts[expected_fields[n]],
                     Len(ExpectedFieldParts[expected_fields[n]]))

\* jsonrpc "2.0", the id of the request, exactly one of result and error, and
\* an error with an integer code and a string message
WellFormedReply(request, response) ==
    /\ IsDict(response)
    /\ Get(response, "jsonrpc") = JStr("2.0")
    /\ EchoesId(request, response)
    /\ HasKey(response, "result") # HasKey(response, "error")
    /\ HasKey(response, "error") => WellShapedError(response)

\* the violations a tool-listing result calls for: one when tools is absent
\* or not a list, else one for each element that is not an object and one for
\* each of name and description that an object element lacks
ToolViolations(result) ==
    IF ~(IsDict(result) /\ HasKey(result, "tools") /\ Get(result, "tools").t = "list")
    THEN 1
    ELSE LET tools == Get(result, "tools").l
         IN  Cardinality({n \in 1..Len(tools) : ~IsDict(tools[n])})
             + Cardinality({pair \in (1..Len(tools)) \X {"name", "description"} :
                              IsDict(tools[pair[1]]) /\ ~HasKey(tools[pair[1]], pair[2])})

\* C23 as stated: for a reply to a "List Tools" test case that carries a
\* result, validate_mcp_specific returns one violation for each offending
\* element and missing field, and at least one unless tools is a list of
\* objects that all have name and description.
C23_ToolListingViolationsReported ==
    (/\ McpValidated
     /\ startswith(v_name, "List Tools")
     /\ IsDict(v_response)
     /\ HasKey(v_response, "result"))
        => /\ ~v_mcp.raised
           /\ Len(v_mcp.errors) = ToolViolations(Get(v_response, "result"))

\* the same for results that are objects, where the validator returns
ToolListingObjectResults ==
    (/\ McpValidated
     /\ startswith(v_name, "List Tools")
     /\ IsDict(v_response)
     /\ HasKey(v_response, "result")
     /\ IsDict(Get(v_response, "result")))
        => /\ ~v_mcp.raised
           /\ Len(v_mcp.errors) = ToolViolations(Get(v_response, "result"))

(***************************************************************************)
(* Properties of the protocol suite, continued.                            *)
(***************************************************************************)
\* the test case just judged is one that expects no response (line 440)
JudgedNotification ==
    /\ pc = "judged"
    /\ test_cases[test_no].is_notification
    /\ ~test_cases[test_no].should_have_response

\* the child wrote a line that is not blank
NonBlankOutput(run) == \E n \in 1..Len(run.stdout) : run.stdout[n].kind # "blank"

\* C24: a notification test case whose child exited with status 0 is PASS
\* exactly when the child wrote no line that is not blank; when it wrote one,
\* JSON or not, the test case is FAIL with the diagnostic 'Unexpected response
\* for notification'.
C24_NotificationPassIffSilent ==
    (JudgedNotification /\ returned.return_code = 0) =>
        /\ test_cases[test_no].result = "PASS" <=> ~NonBlankOutput(returned)
        /\ NonBlankOutput(returned) =>
             /\ test_cases[test_no].result = "FAIL"
             /\ test_cases[test_no].error_message = "Unexpected response for notification"

\* a notification whose child wrote an empty line and then text that is not
\* JSON, and exited with status 0, was judged FAIL
C24_Witness ==
    /\ JudgedNotification
    /\ returned.return_code = 0
    /\ Len(returned.stdout) = 2
    /\ returned.stdout[1].kind = "blank"
    /\ returned.stdout[2].kind = "garbage"
    /\ test_cases[test_no].result = "FAIL"

\* run_test_case expects no response for the test case (line 440)
ExpectsNoResponse(test_case) ==
    test_case.is_notification /\ ~test_case.should_have_response

MethodShapeOk(request, response) ==
    HasKey(response, "result") =>
        CASE Get(request, "method") = JStr("initialize") -> InitializeResultOk(response)
          [] Get(request, "method") = JStr("tools/list") ->
               /\ IsDict(Get(response, "result"))
               /\ HasKey(Get(response, "result"), "tools")
               /\ ToolViolations(Get(response, "result")) = 0
          [] OTHER -> TRUE

\* the reply is of a kind validate_response is told to accept and its result
\* has every expected key
KindAllowed(response, expected_keys, allow_error) ==
    /\ HasKey(response, "error") => allow_error
    /\ HasKey(response, "result") =>
         /\ IsDict(Get(response, "result"))
         /\ \A n \in 1..Len(expected_keys) : HasKey(Get(response, "result"), expected_keys[n])

\* C26: a well-formed reply gets no violation from validate_json_rpc; when
\* every expected field is present, none from validate_expected_fields; when
\* the result has the shape of the method, none from validate_mcp_specific,
\* and with the three the verdict of run_test_case is PASS; when its kind is
\* allowed and its result has the expected keys, validate_response accepts it.
\* The requests have the ids 1, 2, 5, "" and null.
C26_WellFormedReplyPasses ==
    WellFormedReply(v_request, v_response) =>
        /\ RpcValidated => v_rpc = [raised |-> FALSE, errors |-> << >>]
        /\ (FieldsValidated /\ FieldsPresent(v_response, v_expected_fields)) =>
             v_fields = << >>
        /\ (McpValidated /\ MethodShapeOk(v_request, v_response)) =>
             v_mcp = McpErrors(<< >>)
        /\ (FieldsPresent(v_response, v_expected_fields)
            /\ MethodShapeOk(v_request, v_response)) =>
             validated_outcome([name |-> v_name, request |-> v_request,
                                expected_fields |-> v_expected_fields],
                               v_response).result = "PASS"
        /\ (ServerValidated /\ KindAllowed(v_response, v_expected_keys, v_allow_error)) =>
             v_server = VPass

\* the four validators have accepted a well-formed reply to the initialize
\* request whose id is null
C26_Witness ==
    /\ v_done = {"server", "rpc", "fields", "mcp"}
    /\ Get(v_request, "id") = JNull
    /\ WellFormedReply(v_request, v_response)
    /\ FieldsPresent(v_response, v_expected_fields)
    /\ MethodShapeOk(v_request, v_response)
    /\ KindAllowed(v_response, v_expected_keys, v_allow_error)
    /\ v_server = VPass
    /\ v_rpc.errors = << >>
    /\ v_fields = << >>
    /\ v_mcp.errors = << >>

(***************************************************************************)
(* Properties of the suite of test-mcp-server.py, continued.               *)
(***************************************************************************)
\* the calls of run_session_test that run_all_tests has made and left
SessionCallsMade == IF pc = "except" THEN scenario ELSE scenario - 1

\* validate_response accepted the response recorded for message k
ResponseAccepted(test, k) ==
    LET verdict == validate_response(ret[k], Get(test.requests[k], "id"),
                                     expected_keys_at(test.expected_keys_list, k),
                                     allow_error_at(test.allow_errors, k))
    IN  ~verdict.raised /\ verdict.ok

\* C29 as stated: every call of run_session_test has appended one entry to
\* test_results, and the entry is successful exactly when validate_response
\* accepted the response of every message of the scenario that has an "id".
C29_OneEntryPerScenario ==
    (pc \in {"run_all_tests", "finally", "except"} /\ scenario > 0) =>
        /\ Len(test_results) = SessionCallsMade
        /\ Len(test_results) = SessionCallsMade =>
             \/ SessionCallsMade = 0
             \/ test_results[SessionCallsMade].success
                  <=> \A k \in 1..Len(requests) :
                        HasId(k) => ResponseAccepted(SessionTests[SessionCallsMade], k)

\* the same for the calls that returned: one entry each, successful exactly
\* when every response of an id-carrying message was accepted
ReturnedCallsRecorded ==
    (pc \in {"run_all_tests", "finally"} /\ scenario > 1) =>
        /\ Len(test_results) = scenario - 1
        /\ test_results[scenario - 1].success
             <=> \A k \in 1..Len(requests) :
                   HasId(k) => ResponseAccepted(SessionTests[scenario - 1], k)

(***************************************************************************)
(* Properties of the counters of test-mcp-protocol.py.                     *)
(***************************************************************************)
\* the test cases whose iteration of the loop of run_all_tests has counted
Processed ==
    IF pc \in {"summary", "exited"} THEN test_no
    ELSE IF test_no = 0 THEN 0 ELSE test_no - 1

\* the processed test cases with the verdict
ProcessedWith(verdict) == {n \in 1..Processed : test_cases[n].result = verdict}

\* C30: at every point of run_all_tests each counter is the number of
\* processed test cases with its verdict, so the three add up to the number
\* of test cases processed so far; when the loop has ended they add up to
\* the number of test cases, the value of 'total'.
C30_CountersMatchVerdicts ==
    /\ results.passed = Cardinality(ProcessedWith("PASS"))
    /\ results.failed = Cardinality(ProcessedWith("FAIL"))
    /\ results.errors = Cardinality(ProcessedWith("ERROR"))
    /\ results.passed + results.failed + results.errors = Processed
    /\ pc = "summary" => Processed = Len(test_cases)

\* the loop has ended for two test cases, one passed and one an error
C30_Witness ==
    /\ pc = "summary"
    /\ Len(test_cases) = 2
    /\ results = [passed |-> 1, failed |-> 0, errors |-> 1]
    /\ \E n \in 1..2 : test_cases[n].result = "ERROR"

(***************************************************************************)
(* Properties of the exit code of the child of run_test_case.              *)
(***************************************************************************)
\* C31: when run_mcp_server returned a return code other than 0, the verdict
\* of run_test_case is ERROR with 'Server failed to start: ' and the stderr
\* text, and no response is recorded, whatever the child wrote to stdout and
\* whether or not the test case is a notification.
C31_NonZeroExitIsError ==
    (pc = "judged" /\ returned.return_code # 0) =>
        /\ test_cases[test_no].result = "ERROR"
        /\ test_cases[test_no].error_message = "Server failed to start: " \o returned.stderr
        /\ test_cases[test_no].response = None

\* a notification whose child wrote nothing and exited with status 1, which
\* would have passed after status 0, ended as ERROR
C31_Witness ==
    /\ JudgedNotification
    /\ process = "exited"
    /\ returncode = 1
    /\ returned.return_code = 1
    /\ ~NonBlankOutput(returned)
    /\ test_cases[test_no].result = "ERROR"

(***************************************************************************)
(* Properties of the end of DatabaseMcpTester.run.                         *)
(***************************************************************************)
\* run has gone through its finally clause
RunFinished == pc = "summary" \/ (pc = "exited" /\ scenario > 0)

\* C32 as stated: when run has finished, no file of the test database is
\* left and the summary has been printed, whether the scenarios completed,
\* an exception left run_all_tests or the user interrupted it.
C32_CleanedUpAndSummarised ==
    RunFinished => (~db_files /\ summary_printed)

\* the part that holds on every path: the summary has been printed, and the
\* files are gone when all scenarios completed
SummaryAlwaysPrinted ==
    RunFinished =>
        /\ summary_printed
        /\ Len(test_results) = Len(SessionTests) => ~db_files
=============================================================================
